---------------------------- MODULE Spec2Model ----------------------------
(***************************************************************************)
(* Model of planner/expr.go (radon): routing from the WHERE clause,        *)
(* AND-splitting, comparison validation, select-expression parsing,        *)
(* projection membership and avg decomposition.                            *)
(*                                                                         *)
(* AST nodes are records tagged by `kind` (the Go type of the node).  The   *)
(* name of a table, column, function or operator is a TLA+ string.  A Go   *)
(* string that Format may have produced (a field, an alias, the bytes of   *)
(* a value) is a text: the sequence of its tokens, <<>> for "".            *)
(***************************************************************************)
EXTENDS Naturals, Sequences, FiniteSets

VARIABLES ast, pc, call, ret, lookups, tuple

vars == <<ast, pc, call, ret, lookups, tuple>>

-----------------------------------------------------------------------------
(* Bounds of the inputs *)

\* And/Paren nodes above the core comparisons of a WHERE tree
MaxOps == 3
\* And/Paren nodes above the full leaf set of a WHERE tree
MaxShallowOps == 1
\* function calls and binary operators in a select item
MaxSelOps == 2
\* tuples in the list given to checkInTuple
MaxTuples == 2

-----------------------------------------------------------------------------
(* sqlparser AST nodes *)

Nil == [kind |-> "nil"]

Text(s) == <<s>>

NewIntVal(v) == [kind |-> "SQLVal", Type |-> "IntVal", Val |-> Text(v)]
NewValArg(text) == [kind |-> "SQLVal", Type |-> "ValArg", Val |-> text]
ColName(qualifier, name) == [kind |-> "ColName", Qualifier |-> qualifier, Name |-> name]
ComparisonExpr(op, l, r) == [kind |-> "ComparisonExpr", Operator |-> op, Left |-> l, Right |-> r]
AndExpr(l, r) == [kind |-> "AndExpr", Left |-> l, Right |-> r]
OrExpr(l, r) == [kind |-> "OrExpr", Left |-> l, Right |-> r]
NotExpr(e) == [kind |-> "NotExpr", Expr |-> e]
ParenExpr(e) == [kind |-> "ParenExpr", Expr |-> e]
Where(e) == [kind |-> "Where", Expr |-> e]
BinaryExpr(op, l, r) == [kind |-> "BinaryExpr", Operator |-> op, Left |-> l, Right |-> r]
FuncExpr(name, distinct, exprs) ==
    [kind |-> "FuncExpr", Name |-> name, Distinct |-> distinct, Exprs |-> exprs]
AliasedExpr(e, as) == [kind |-> "AliasedExpr", Expr |-> e, As |-> as]
StarExpr(table) == [kind |-> "StarExpr", TableName |-> table]
Subquery == [kind |-> "Subquery"]
GroupConcatExpr == [kind |-> "GroupConcatExpr"]

EqualStr == "="
LessThanStr == "<"

-----------------------------------------------------------------------------
(* WHERE trees given to the planner *)

KeyEq5 == ComparisonExpr(EqualStr, ColName("", "id"), NewIntVal("5"))
KeyEq7 == ComparisonExpr(EqualStr, ColName("t", "id"), NewIntVal("7"))
NameEq == ComparisonExpr(EqualStr, ColName("", "name"), NewIntVal("5"))
JoinEq == ComparisonExpr(EqualStr, ColName("", "id"), ColName("t2", "id"))

CoreLeaves == {KeyEq5, KeyEq7, NameEq, JoinEq}

OtherLeaves ==
    { ComparisonExpr(LessThanStr, ColName("", "id"), NewIntVal("5")),
      ComparisonExpr(EqualStr, NewIntVal("5"), ColName("", "id")),
      ComparisonExpr(EqualStr, ColName("s", "id"), NewIntVal("7")),
      ComparisonExpr(EqualStr, ParenExpr(KeyEq5), NewIntVal("7")),
      OrExpr(KeyEq5, KeyEq7),
      NotExpr(KeyEq5),
      ColName("", "id") }

RECURSIVE TreesOf(_, _)
\* the trees with exactly k And/Paren nodes over the leaves
TreesOf(k, leaves) ==
    IF k = 0 THEN leaves
    ELSE { ParenExpr(e) : e \in TreesOf(k - 1, leaves) }
         \cup UNION { { AndExpr(l, r) : l \in TreesOf(i, leaves),
                                        r \in TreesOf(k - 1 - i, leaves) }
                      : i \in 0 .. (k - 1) }

\* the WHERE clause is absent, empty, or a tree with k And/Paren nodes
WhereInput(k, leaves) ==
    \/ k = 0 /\ ast \in {Nil, Where(Nil)}
    \/ k = 0 /\ \E e \in leaves : ast = Where(e)
    \/ k > 0 /\ \E e \in TreesOf(k - 1, leaves) : ast = Where(ParenExpr(e))
    \/ k > 0 /\ \E i \in 0 .. (k - 1) :
                  \E l \in TreesOf(i, leaves), r \in TreesOf(k - 1 - i, leaves) :
                      ast = Where(AndExpr(l, r))

-----------------------------------------------------------------------------
(* planner/expr.go: the WHERE clause *)

RECURSIVE splitAndOrExpression(_, _)
\* splitAndExpression that takes an OR apart like an AND
splitAndOrExpression(filters, node) ==
    IF node = Nil THEN filters
    ELSE IF node.kind \in {"AndExpr", "OrExpr"}
         THEN splitAndOrExpression(splitAndOrExpression(filters, node.Left), node.Right)
    ELSE IF node.kind = "ParenExpr" /\ node.Expr.kind = "AndExpr"
         THEN splitAndOrExpression(filters, node.Expr)
    ELSE Append(filters, node)

RECURSIVE splitBareAndExpression(_, _)
\* splitAndExpression that leaves an AND in parentheses whole
splitBareAndExpression(filters, node) ==
    IF node = Nil THEN filters
    ELSE IF node.kind = "AndExpr"
         THEN splitBareAndExpression(splitBareAndExpression(filters, node.Left), node.Right)
    ELSE Append(filters, node)

RECURSIVE splitAndExpression(_, _)
splitAndExpression(filters, node) ==
    IF node = Nil THEN filters
    ELSE IF node.kind = "AndExpr"
         THEN splitAndExpression(splitAndExpression(filters, node.Left), node.Right)
    ELSE IF node.kind = "ParenExpr" /\ node.Expr.kind = "AndExpr"
         THEN splitAndExpression(filters, node.Expr)
    ELSE Append(filters, node)

RECURSIVE skipParenthesis(_)
skipParenthesis(node) ==
    IF node.kind = "ParenExpr" THEN skipParenthesis(node.Expr) ELSE node

\* nameMatch that does not look at the qualifier
nameMatchAnyTable(node, table, shardkey) ==
    node.kind = "ColName" /\ node.Name = shardkey

nameMatch(node, table, shardkey) ==
    /\ node.kind = "ColName"
    /\ (node.Qualifier = "" \/ node.Qualifier = table)
    /\ node.Name = shardkey


-----------------------------------------------------------------------------
(* sqlparser Format: the text of a node, as its sequence of tokens *)

RECURSIVE Format(_)
RECURSIVE FormatExprs(_, _)
Format(node) ==
    CASE node.kind = "SQLVal" -> node.Val
      [] node.kind = "ColName" ->
            IF node.Qualifier = "" THEN <<node.Name>>
            ELSE <<node.Qualifier, ".", node.Name>>
      [] node.kind = "ComparisonExpr" ->
            Format(node.Left) \o <<node.Operator>> \o Format(node.Right)
      [] node.kind = "AndExpr" -> Format(node.Left) \o <<"and">> \o Format(node.Right)
      [] node.kind = "OrExpr" -> Format(node.Left) \o <<"or">> \o Format(node.Right)
      [] node.kind = "NotExpr" -> <<"not">> \o Format(node.Expr)
      [] node.kind = "ParenExpr" -> <<"(">> \o Format(node.Expr) \o <<")">>
      [] node.kind = "BinaryExpr" ->
            Format(node.Left) \o <<node.Operator>> \o Format(node.Right)
      [] node.kind = "FuncExpr" ->
            <<node.Name, "(">>
            \o (IF node.Distinct THEN <<"distinct">> ELSE <<>>)
            \o FormatExprs(node.Exprs, 1) \o <<")">>
      [] node.kind = "AliasedExpr" ->
            Format(node.Expr) \o (IF node.As = <<>> THEN <<>> ELSE <<"as">> \o node.As)
      [] node.kind = "StarExpr" ->
            IF node.TableName = "" THEN <<"*">> ELSE <<node.TableName, ".", "*">>
      [] node.kind = "Subquery" -> <<"(", "select", ")">>
      [] node.kind = "GroupConcatExpr" -> <<"group_concat", "(", ")">>
      [] OTHER -> <<>>

\* SelectExprs.Format: the items from the i-th on, separated by commas
FormatExprs(exprs, i) ==
    IF i > Len(exprs) THEN <<>>
    ELSE (IF i > 1 THEN <<",">> ELSE <<>>) \o Format(exprs[i]) \o FormatExprs(exprs, i + 1)

-----------------------------------------------------------------------------
(* The router collaborator *)

NoErr == <<>>

Backends == <<"backend1", "backend2">>

Routers == { [fail |-> FALSE], [fail |-> TRUE] }

\* router.Lookup: every backend without keys, the backend of the key for an
\* exact match, the backends between the keys for a range
KeySlot(key) == IF key.Val = Text("5") THEN 1 ELSE 2

Lookup(router, database, table, start, end) ==
    IF router.fail THEN [segments |-> <<>>, err |-> <<"router", "error">>]
    ELSE IF start = Nil /\ end = Nil THEN [segments |-> Backends, err |-> NoErr]
    ELSE IF start = Nil THEN [segments |-> SubSeq(Backends, 1, KeySlot(end)), err |-> NoErr]
    ELSE IF end = Nil THEN [segments |-> SubSeq(Backends, KeySlot(start), Len(Backends)), err |-> NoErr]
    ELSE [segments |-> SubSeq(Backends, KeySlot(start), KeySlot(end)), err |-> NoErr]

LookupCall(database, table, start, end) ==
    [database |-> database, table |-> table, start |-> start, end |-> end]

-----------------------------------------------------------------------------
(* planner/expr.go: getDMLRouting and checkComparison *)

RECURSIVE lastRoutingKey(_, _, _, _)
\* the loop of getDMLRouting without its return: the last matching filter wins
lastRoutingKey(filters, i, table, shardkey) ==
    IF i > Len(filters) THEN Nil
    ELSE LET filter == skipParenthesis(filters[i])
             later == lastRoutingKey(filters, i + 1, table, shardkey)
         IN IF later # Nil THEN later
            ELSE IF /\ filter.kind = "ComparisonExpr"
                    /\ filter.Operator = EqualStr
                    /\ nameMatch(filter.Left, table, shardkey)
                    /\ filter.Right.kind = "SQLVal"
                 THEN filter.Right
            ELSE Nil

RECURSIVE routingKey(_, _, _, _)
\* the loop of getDMLRouting from the i-th filter on: the SQLVal of the
\* filter that returns, Nil when the loop falls through
routingKey(filters, i, table, shardkey) ==
    IF i > Len(filters) THEN Nil
    ELSE LET filter == skipParenthesis(filters[i])
         IN IF /\ filter.kind = "ComparisonExpr"
               /\ filter.Operator = EqualStr
               /\ nameMatch(filter.Left, table, shardkey)
               /\ filter.Right.kind = "SQLVal"
            THEN filter.Right
            ELSE routingKey(filters, i + 1, table, shardkey)

\* returnLookup that asks for the range from the start key on
returnOpenLookup(router, database, table, start, end) ==
    LET reply == Lookup(router, database, table, start, Nil)
    IN [calls |-> <<LookupCall(database, table, start, Nil)>>,
        segments |-> reply.segments,
        err |-> reply.err]

\* return router.Lookup(database, table, start, end): the call made, and the
\* segments and the error it returns
returnLookup(router, database, table, start, end) ==
    LET reply == Lookup(router, database, table, start, end)
    IN [calls |-> <<LookupCall(database, table, start, end)>>,
        segments |-> reply.segments,
        err |-> reply.err]

getDMLRouting(database, table, shardkey, where, router) ==
    IF shardkey # "" /\ where # Nil
    THEN LET sqlval == routingKey(splitAndExpression(<<>>, where.Expr), 1, table, shardkey)
         IN IF sqlval # Nil
            THEN returnLookup(router, database, table, sqlval, sqlval)
            ELSE returnLookup(router, database, table, Nil, Nil)
    ELSE returnLookup(router, database, table, Nil, Nil)

RECURSIVE checkUnwrappedFilters(_, _)
\* checkFilters that looks inside the parentheses of a filter
checkUnwrappedFilters(filters, i) ==
    IF i > Len(filters) THEN NoErr
    ELSE LET filter == skipParenthesis(filters[i])
         IN IF filter.kind = "ComparisonExpr" /\ filter.Right.kind # "SQLVal"
            THEN <<"unsupported:", "[">> \o Format(filter) \o <<"]", "must.be.value.compare">>
            ELSE checkUnwrappedFilters(filters, i + 1)

RECURSIVE checkFilters(_, _)
\* the loop of checkComparison from the i-th filter on
checkFilters(filters, i) ==
    IF i > Len(filters) THEN NoErr
    ELSE LET filter == filters[i]
         IN IF filter.kind = "ComparisonExpr" /\ filter.Right.kind # "SQLVal"
            THEN <<"unsupported:", "[">> \o Format(filter) \o <<"]", "must.be.value.compare">>
            ELSE checkFilters(filters, i + 1)

checkComparison(expr) == checkFilters(splitAndExpression(<<>>, expr), 1)

-----------------------------------------------------------------------------
(* Select items given to the planner *)

SelLeaves ==
    { ColName("", "a"), ColName("x", "a"), ColName("t", "b"), Subquery, GroupConcatExpr }

FuncNames == {"count", "avg", "lower"}

\* the argument lists of a call around e
ArgLists(e) ==
    { <<AliasedExpr(e, <<>>)>>,
      <<AliasedExpr(e, <<>>), AliasedExpr(ColName("x", "b"), <<>>)>> }

LeafArgLists == { <<>>, <<StarExpr("")>>, <<StarExpr("x")>> }

RECURSIVE SelTreesOf(_)
\* the expressions with exactly k function calls and binary operators
SelTreesOf(k) ==
    IF k = 0 THEN SelLeaves
    ELSE { FuncExpr(name, distinct, exprs) :
             name \in FuncNames, distinct \in BOOLEAN,
             exprs \in UNION { ArgLists(e) : e \in SelTreesOf(k - 1) }
                       \cup (IF k = 1 THEN LeafArgLists ELSE {}) }
         \cup UNION { { BinaryExpr("+", l, r) : l \in SelTreesOf(i),
                                               r \in SelTreesOf(k - 1 - i) }
                      : i \in 0 .. (k - 1) }

\* the select item is an expression with k calls and operators, with or
\* without an alias
SelectInput(k) ==
    \E as \in {<<>>, Text("f")} :
        \/ k = 0 /\ \E e \in SelLeaves : ast = AliasedExpr(e, as)
        \/ k = 1 /\ \E name \in FuncNames, distinct \in BOOLEAN, exprs \in LeafArgLists :
                      ast = AliasedExpr(FuncExpr(name, distinct, exprs), as)
        \/ k > 0 /\ \E name \in FuncNames, distinct \in BOOLEAN, e \in SelTreesOf(k - 1) :
                      \E exprs \in ArgLists(e) :
                          ast = AliasedExpr(FuncExpr(name, distinct, exprs), as)
        \/ k > 0 /\ \E i \in 0 .. (k - 1) :
                      \E l \in SelTreesOf(i), r \in SelTreesOf(k - 1 - i) :
                          ast = AliasedExpr(BinaryExpr("+", l, r), as)

-----------------------------------------------------------------------------
(* sqlparser Walk and IsAggregate *)

Aggregates == {"avg", "count", "max", "min", "sum"}

IsAggregate(node) == node.Name \in Aggregates

\* the nodes walkSubtree descends to, in order
Children(node) ==
    CASE node.kind = "FuncExpr" -> node.Exprs
      [] node.kind = "AliasedExpr" -> <<node.Expr>>
      [] node.kind = "BinaryExpr" -> <<node.Left, node.Right>>
      [] node.kind = "ComparisonExpr" -> <<node.Left, node.Right>>
      [] node.kind = "ParenExpr" -> <<node.Expr>>
      [] OTHER -> <<>>

RECURSIVE Preorder(_)
RECURSIVE PreorderAll(_, _)
\* the nodes in the order Walk visits them when no visit stops it
Preorder(node) == <<node>> \o PreorderAll(Children(node), 1)

PreorderAll(nodes, i) ==
    IF i > Len(nodes) THEN <<>>
    ELSE Preorder(nodes[i]) \o PreorderAll(nodes, i + 1)

-----------------------------------------------------------------------------
(* planner/expr.go: the select list *)

selectTuple(expr, field, referTables, aggrFuc, aggrField, distinct) ==
    [kind |-> "selectTuple", expr |-> expr, field |-> field,
     referTables |-> referTables, aggrFuc |-> aggrFuc, aggrField |-> aggrField,
     distinct |-> distinct]

\* field of parserSelectExpr: the alias, else the column name, else the text
selectField(expr) ==
    IF expr.As # <<>> THEN expr.As
    ELSE IF expr.Expr.kind = "ColName" THEN Text(expr.Expr.Name)
    ELSE Format(expr)

\* visitSelect without the test that the aggregate is the top-level node
visitAnyAggregate(st, node, isTop, field) ==
    CASE node.kind = "ColName" ->
            IF node.Qualifier = "" THEN st
            ELSE IF \E i \in DOMAIN st.referTables : st.referTables[i] = node.Qualifier
                 THEN st
            ELSE [st EXCEPT !.referTables = Append(@, node.Qualifier)]
      [] node.kind = "FuncExpr" ->
            LET d == [st EXCEPT !.distinct = node.Distinct]
            IN IF ~IsAggregate(node) THEN d
               ELSE LET f == [d EXCEPT !.funcName = node.Name]
                    IN IF Len(node.Exprs) # 1
                       THEN [f EXCEPT !.err = <<"unsupported:", "invalid.use.of.group.function",
                                                node.Name>>]
                       ELSE LET a == [f EXCEPT !.aggrField = FormatExprs(node.Exprs, 1)]
                            IN IF a.aggrField = Text("*") /\ node.Name # "count"
                               THEN [a EXCEPT !.err = <<"unsupported:", "syntax.error.at">>
                                                      \o field]
                               ELSE a
      [] node.kind = "GroupConcatExpr" ->
            [st EXCEPT !.err = <<"unsupported:", "group_concat.in.select.exprs">>]
      [] node.kind = "Subquery" ->
            [st EXCEPT !.err = <<"unsupported:", "subqueries.in.select.exprs">>]
      [] OTHER -> st

\* the closure given to Walk in parserSelectExpr, on one node; st holds the
\* captured variables and the error returned, isTop is node == expr.Expr
visitSelect(st, node, isTop, field) ==
    CASE node.kind = "ColName" ->
            IF node.Qualifier = "" THEN st
            ELSE IF \E i \in DOMAIN st.referTables : st.referTables[i] = node.Qualifier
                 THEN st
            ELSE [st EXCEPT !.referTables = Append(@, node.Qualifier)]
      [] node.kind = "FuncExpr" ->
            LET d == [st EXCEPT !.distinct = node.Distinct]
            IN IF ~IsAggregate(node) THEN d
               ELSE IF ~isTop
                    THEN [d EXCEPT !.err = <<"unsupported:">> \o field
                                           \o <<"contain.aggregate.in.select.exprs">>]
               ELSE LET f == [d EXCEPT !.funcName = node.Name]
                    IN IF Len(node.Exprs) # 1
                       THEN [f EXCEPT !.err = <<"unsupported:", "invalid.use.of.group.function",
                                                node.Name>>]
                       ELSE LET a == [f EXCEPT !.aggrField = FormatExprs(node.Exprs, 1)]
                            IN IF a.aggrField = Text("*") /\ node.Name # "count"
                               THEN [a EXCEPT !.err = <<"unsupported:", "syntax.error.at">>
                                                      \o field]
                               ELSE a
      [] node.kind = "GroupConcatExpr" ->
            [st EXCEPT !.err = <<"unsupported:", "group_concat.in.select.exprs">>]
      [] node.kind = "Subquery" ->
            [st EXCEPT !.err = <<"unsupported:", "subqueries.in.select.exprs">>]
      [] OTHER -> st

RECURSIVE walkSelect(_, _, _, _)
\* Walk from the i-th visited node on: stops at the first error
walkSelect(st, nodes, i, field) ==
    IF i > Len(nodes) THEN st
    ELSE LET next == visitSelect(st, nodes[i], i = 1, field)
         IN IF next.err # NoErr THEN next
            ELSE walkSelect(next, nodes, i + 1, field)

parserSelectExpr(expr) ==
    LET field == selectField(expr)
        start == [funcName |-> "", aggrField |-> <<>>, distinct |-> FALSE,
                  referTables |-> <<>>, err |-> NoErr]
        end == walkSelect(start, Preorder(expr.Expr), 1, field)
    IN IF end.err # NoErr THEN [tuple |-> Nil, err |-> end.err]
       ELSE [tuple |-> selectTuple(expr, field, end.referTables, end.funcName,
                                   end.aggrField, end.distinct),
             err |-> NoErr]

RECURSIVE checkAmongTablesFrom(_, _, _, _)
\* checkInTupleFrom that accepts the table anywhere among the referred tables
checkAmongTablesFrom(field, table, tuples, i) ==
    IF i > Len(tuples) THEN FALSE
    ELSE LET t == tuples[i]
         IN IF /\ (t.field = Text("*") \/ t.field = field)
               /\ \/ table = "" \/ Len(t.referTables) = 0
                  \/ \E k \in DOMAIN t.referTables : t.referTables[k] = table
            THEN TRUE
            ELSE checkAmongTablesFrom(field, table, tuples, i + 1)

RECURSIVE checkInTupleFrom(_, _, _, _)
\* the loop of checkInTuple from the i-th tuple on
checkInTupleFrom(field, table, tuples, i) ==
    IF i > Len(tuples) THEN FALSE
    ELSE LET t == tuples[i]
         IN IF /\ (t.field = Text("*") \/ t.field = field)
               /\ \/ table = "" \/ Len(t.referTables) = 0
                  \/ (Len(t.referTables) = 1 /\ t.referTables[1] = table)
            THEN TRUE
            ELSE checkInTupleFrom(field, table, tuples, i + 1)

checkInTuple(field, table, tuples) == checkInTupleFrom(field, table, tuples, 1)

\* decomposeAvg that gives the alias to count instead of sum
decomposeAvgCountAliased(t) ==
    LET sum == AliasedExpr(FuncExpr("sum", FALSE, <<AliasedExpr(NewValArg(t.aggrField), <<>>)>>),
                           <<>>)
        count == AliasedExpr(FuncExpr("count", FALSE, <<AliasedExpr(NewValArg(t.aggrField), <<>>)>>),
                             t.field)
    IN [ret |-> <<sum, count>>, tuple |-> t]

\* the expressions returned, and the tuple behind the pointer after the call
decomposeAvg(t) ==
    LET sum == AliasedExpr(FuncExpr("sum", FALSE, <<AliasedExpr(NewValArg(t.aggrField), <<>>)>>),
                           t.field)
        count == AliasedExpr(FuncExpr("count", FALSE, <<AliasedExpr(NewValArg(t.aggrField), <<>>)>>),
                             <<>>)
    IN [ret |-> <<sum, count>>, tuple |-> t]

-----------------------------------------------------------------------------
(* Tuple lists given to checkInTuple *)

TupleFields == {Text("a"), Text("b"), Text("*")}
ReferLists == {<<>>, <<"x">>, <<"t">>, <<"x", "t">>, <<"t", "x">>}

TupleChoices ==
    { selectTuple(Nil, f, r, "", <<>>, FALSE) : f \in TupleFields, r \in ReferLists }

RECURSIVE ListsOf(_, _)
\* the lists of exactly n elements of S
ListsOf(n, S) ==
    IF n = 0 THEN {<<>>}
    ELSE { Append(l, x) : l \in ListsOf(n - 1, S), x \in S }

\* the list has n tuples
TuplesInput(n) ==
    \E ts \in ListsOf(n, TupleChoices) : ast = [kind |-> "selectTuples", tuples |-> ts]

-----------------------------------------------------------------------------
(* The planner calls *)

NoRet == [kind |-> "none"]
NoCall == [fn |-> "none"]

Init ==
    /\ \/ \E k \in 0 .. MaxOps : WhereInput(k, CoreLeaves)
       \/ \E k \in 0 .. MaxShallowOps : WhereInput(k, CoreLeaves \cup OtherLeaves)
       \/ \E k \in 0 .. MaxSelOps : SelectInput(k)
       \/ \E n \in 0 .. MaxTuples : TuplesInput(n)
    /\ pc = "ready"
    /\ call = NoCall
    /\ ret = NoRet
    /\ lookups = <<>>
    /\ tuple = Nil

GetDMLRouting ==
    /\ pc = "ready"
    /\ ast.kind \in {"nil", "Where"}
    /\ \E table \in {"t", "s"}, shardkey \in {"", "id"}, router \in Routers :
         LET r == getDMLRouting("db", table, shardkey, ast, router)
         IN /\ call' = [fn |-> "getDMLRouting", database |-> "db", table |-> table,
                        shardkey |-> shardkey, router |-> router]
            /\ lookups' = lookups \o r.calls
            /\ ret' = [segments |-> r.segments, err |-> r.err]
    /\ pc' = "done"
    /\ UNCHANGED <<ast, tuple>>

SplitAndExpression ==
    /\ pc = "ready"
    /\ ast.kind = "Where"
    /\ call' = [fn |-> "splitAndExpression"]
    /\ ret' = [filters |-> splitAndExpression(<<>>, ast.Expr)]
    /\ pc' = "done"
    /\ UNCHANGED <<ast, lookups, tuple>>

CheckComparison ==
    /\ pc = "ready"
    /\ ast.kind = "Where"
    /\ call' = [fn |-> "checkComparison"]
    /\ ret' = [err |-> checkComparison(ast.Expr)]
    /\ pc' = "done"
    /\ UNCHANGED <<ast, lookups, tuple>>

ParserSelectExpr ==
    /\ pc = "ready"
    /\ ast.kind = "AliasedExpr"
    /\ LET r == parserSelectExpr(ast)
       IN /\ ret' = [err |-> r.err]
          /\ tuple' = r.tuple
    /\ call' = [fn |-> "parserSelectExpr"]
    /\ pc' = "done"
    /\ UNCHANGED <<ast, lookups>>

\* the planner decomposes the tuple of an avg item
DecomposeAvg ==
    /\ pc = "done"
    /\ call.fn = "parserSelectExpr"
    /\ tuple # Nil
    /\ tuple.aggrFuc = "avg"
    /\ LET r == decomposeAvg(tuple)
       IN /\ ret' = [exprs |-> r.ret]
          /\ tuple' = r.tuple
    /\ call' = [fn |-> "decomposeAvg", tuple |-> tuple]
    /\ UNCHANGED <<ast, pc, lookups>>

CheckInTuple ==
    /\ pc = "ready"
    /\ ast.kind = "selectTuples"
    /\ \E field \in {Text("a"), Text("b")}, table \in {"", "x", "t"} :
         /\ call' = [fn |-> "checkInTuple", field |-> field, table |-> table]
         /\ ret' = [found |-> checkInTuple(field, table, ast.tuples)]
    /\ pc' = "done"
    /\ UNCHANGED <<ast, lookups, tuple>>

Next ==
    \/ GetDMLRouting
    \/ SplitAndExpression
    \/ CheckComparison
    \/ ParserSelectExpr
    \/ DecomposeAvg
    \/ CheckInTuple

Spec == Init /\ [][Next]_vars

-----------------------------------------------------------------------------
(* Vocabulary of the properties *)

Min(S) == CHOOSE i \in S : \A j \in S : i <= j

Routed == pc = "done" /\ call.fn = "getDMLRouting"

\* an equality of the routing key of the table with a literal
IsKeyEquality(e, table, key) ==
    /\ e.kind = "ComparisonExpr"
    /\ e.Operator = "="
    /\ e.Left.kind = "ColName"
    /\ e.Left.Name = key
    /\ e.Left.Qualifier \in {"", table}
    /\ e.Right.kind = "SQLVal"

RECURSIVE Unparen(_)
\* the expression inside every enclosing pair of parentheses
Unparen(e) == IF e.kind = "ParenExpr" THEN Unparen(e.Expr) ELSE e

\* the conjuncts of the WHERE clause of the call
Conjuncts == splitAndExpression(<<>>, ast.Expr)

\* the conjuncts that are themselves key equalities
BareMatches ==
    { i \in DOMAIN Conjuncts : IsKeyEquality(Conjuncts[i], call.table, call.shardkey) }

\* the conjuncts that are key equalities inside any number of parentheses
ParenMatches ==
    { i \in DOMAIN Conjuncts :
        IsKeyEquality(Unparen(Conjuncts[i]), call.table, call.shardkey) }

BoundedLookup(v) == LookupCall(call.database, call.table, v, v)
UnboundedLookup == LookupCall(call.database, call.table, Nil, Nil)

RECURSIVE AndParenNodes(_)
\* the nodes reached from e through AndExpr and ParenExpr nodes only
AndParenNodes(e) ==
    {e} \cup (IF e.kind = "AndExpr" THEN AndParenNodes(e.Left) \cup AndParenNodes(e.Right)
              ELSE IF e.kind = "ParenExpr" THEN AndParenNodes(e.Expr)
              ELSE {})

-----------------------------------------------------------------------------
(* C1 *)

\* C1 as stated: when some conjunct of the WHERE clause is itself an equality
\* of the routing key with a literal, the one lookup made is bounded by the
\* literal of the first such conjunct.
C1_FirstBareConjunctWins ==
    (Routed /\ call.shardkey # "" /\ ast # Nil /\ BareMatches # {})
        => lookups = <<BoundedLookup(Conjuncts[Min(BareMatches)].Right)>>

\* C1 amended: when some conjunct of the WHERE clause is, inside any
\* parentheses around it, an equality of the routing key with a literal, the
\* one lookup made is bounded by the literal of the first such conjunct, and
\* no later one determines the key.
C1_FirstMatchWins ==
    (Routed /\ call.shardkey # "" /\ ast # Nil /\ ParenMatches # {})
        => lookups = <<BoundedLookup(Unparen(Conjuncts[Min(ParenMatches)]).Right)>>

\* two matching conjuncts with different literals, the first one in parentheses
C1_Witness ==
    /\ Routed /\ call.shardkey # "" /\ ast # Nil
    /\ \E i, j \in ParenMatches :
         /\ i < j
         /\ Conjuncts[i].kind = "ParenExpr"
         /\ Unparen(Conjuncts[i]).Right # Unparen(Conjuncts[j]).Right
         /\ lookups = <<BoundedLookup(Unparen(Conjuncts[i]).Right)>>

-----------------------------------------------------------------------------
(* C2 *)

\* C2 as stated: without a routing key, without a WHERE clause, or when no
\* conjunct is itself an equality of the routing key with a literal, the one
\* lookup made is the unbounded one and the call returns what it returns.
C2_UnboundedWithoutBareMatch ==
    (Routed /\ (call.shardkey = "" \/ ast = Nil \/ BareMatches = {}))
        => /\ lookups = <<UnboundedLookup>>
           /\ ret = Lookup(call.router, call.database, call.table, Nil, Nil)

\* C2 amended: without a routing key, without a WHERE clause, or when no
\* conjunct is, inside any parentheses around it, an equality of the routing
\* key with a literal, the one lookup made is the unbounded one and the call
\* returns what that lookup returns (no error of its own).
C2_UnboundedWithoutMatch ==
    (Routed /\ (call.shardkey = "" \/ ast = Nil \/ ParenMatches = {}))
        => /\ lookups = <<UnboundedLookup>>
           /\ ret = Lookup(call.router, call.database, call.table, Nil, Nil)

\* a WHERE clause with a routing key given, whose conjuncts are comparisons
\* on the key column that do not match, routed to every backend
C2_Witness ==
    /\ Routed /\ call.shardkey # "" /\ ast # Nil
    /\ Len(Conjuncts) = 2
    /\ \A i \in DOMAIN Conjuncts : Conjuncts[i].kind = "ComparisonExpr"
    /\ \E i \in DOMAIN Conjuncts :
         Conjuncts[i].Left.kind = "ColName" /\ Conjuncts[i].Left.Name = call.shardkey
    /\ ParenMatches = {}
    /\ lookups = <<UnboundedLookup>>
    /\ ret.err = NoErr

-----------------------------------------------------------------------------
(* C3 *)

\* C3: a call of getDMLRouting makes exactly one Lookup, with both keys absent
\* or both the same literal, and returns the segments and the error of that
\* Lookup.
C3_OneLookupReturned ==
    Routed =>
        /\ Len(lookups) = 1
        /\ lookups[1].start = lookups[1].end
        /\ lookups[1].start.kind \in {"nil", "SQLVal"}
        /\ ret = Lookup(call.router, lookups[1].database, lookups[1].table,
                        lookups[1].start, lookups[1].end)

\* a bounded lookup that the router fails
C3_Witness ==
    /\ Routed
    /\ Len(lookups) = 1
    /\ lookups[1].start # Nil
    /\ ret.err # NoErr

-----------------------------------------------------------------------------
(* C10 *)

\* C10: a bounded lookup with key v is made only when the WHERE tree holds
\* an equality of the routing key with v that is reached from the root
\* through AndExpr and ParenExpr nodes only.
C10_BoundedOnlyWhenForced ==
    (Routed /\ Len(lookups) >= 1 /\ lookups[1].start # Nil)
        => /\ ast # Nil
           /\ \E n \in AndParenNodes(ast.Expr) :
                /\ IsKeyEquality(n, call.table, call.shardkey)
                /\ n.Right = lookups[1].start

\* a key equality under an OR next to a forcing conjunct: the lookup is
\* bounded by the forcing conjunct, and the OR alone leaves it unbounded
C10_Witness ==
    /\ Routed /\ call.shardkey # "" /\ ast # Nil
    /\ ast.Expr.kind = "AndExpr"
    /\ ast.Expr.Left.kind = "OrExpr"
    /\ IsKeyEquality(ast.Expr.Left.Left, call.table, call.shardkey)
    /\ IsKeyEquality(ast.Expr.Right, call.table, call.shardkey)
    /\ lookups = <<BoundedLookup(ast.Expr.Right.Right)>>
    /\ ast.Expr.Right.Right # ast.Expr.Left.Left.Right

-----------------------------------------------------------------------------
(* C4 *)

Decomposed == pc = "done" /\ call.fn = "splitAndExpression"

\* C4: the conjuncts of A AND B are the conjuncts of A followed by those of
\* B, (A AND B) in parentheses has the same conjuncts, any other expression
\* is its own single conjunct, and an absent expression has none.
C4_DecomposeLaws ==
    Decomposed =>
        LET n == ast.Expr
        IN IF n = Nil THEN ret.filters = <<>>
           ELSE IF n.kind = "AndExpr"
                THEN ret.filters = splitAndExpression(<<>>, n.Left)
                                   \o splitAndExpression(<<>>, n.Right)
           ELSE IF n.kind = "ParenExpr" /\ n.Expr.kind = "AndExpr"
                THEN ret.filters = splitAndExpression(<<>>, n.Expr.Left)
                                   \o splitAndExpression(<<>>, n.Expr.Right)
           ELSE ret.filters = <<n>>

\* (A AND B) in parentheses, where A is itself an AND of two different
\* conjuncts: three conjuncts in source order
C4_Witness ==
    /\ Decomposed
    /\ ast.Expr.kind = "ParenExpr"
    /\ ast.Expr.Expr.kind = "AndExpr"
    /\ ast.Expr.Expr.Left.kind = "AndExpr"
    /\ ret.filters = <<ast.Expr.Expr.Left.Left, ast.Expr.Expr.Left.Right,
                       ast.Expr.Expr.Right>>
    /\ ret.filters[1] # ret.filters[2]
    /\ ret.filters[2] # ret.filters[3]

-----------------------------------------------------------------------------
(* C5 *)

Validated == pc = "done" /\ call.fn = "checkComparison"

\* the conjuncts that are comparisons with a right-hand side that is no literal
NonValueComparisons ==
    { i \in DOMAIN Conjuncts :
        Conjuncts[i].kind = "ComparisonExpr" /\ Conjuncts[i].Right.kind # "SQLVal" }

\* C5: checkComparison fails exactly when some conjunct is a comparison whose
\* right-hand side is no literal, and the error carries the text of the first
\* such conjunct.
C5_RejectsNonValueComparison ==
    Validated =>
        /\ (ret.err # NoErr) <=> (NonValueComparisons # {})
        /\ NonValueComparisons # {} =>
              ret.err = <<"unsupported:", "[">>
                        \o Format(Conjuncts[Min(NonValueComparisons)])
                        \o <<"]", "must.be.value.compare">>

\* two different offending conjuncts: the error names the first
C5_Witness ==
    /\ Validated
    /\ \E i, j \in NonValueComparisons :
         i < j /\ Format(Conjuncts[i]) # Format(Conjuncts[j])
    /\ ret.err # NoErr

\* a column-to-column comparison kept in parentheses is no comparison
\* conjunct and is accepted
C5_ParenWitness ==
    /\ Validated
    /\ ast.Expr.kind = "ParenExpr"
    /\ ast.Expr.Expr.kind = "ComparisonExpr"
    /\ ast.Expr.Expr.Right.kind = "ColName"
    /\ ret.err = NoErr

-----------------------------------------------------------------------------
(* C6 *)

Parsed == pc = "done" /\ call.fn = "parserSelectExpr"

AggregateNames == {"count", "avg"}

IsAggregateCall(n) == n.kind = "FuncExpr" /\ n.Name \in AggregateNames

RECURSIVE NodesOf(_)
RECURSIVE NodesOfAll(_, _)
\* every expression node of e, e included
NodesOf(e) ==
    {e} \cup (CASE e.kind = "FuncExpr" -> NodesOfAll(e.Exprs, 1)
                [] e.kind = "AliasedExpr" -> NodesOf(e.Expr)
                [] e.kind = "BinaryExpr" -> NodesOf(e.Left) \cup NodesOf(e.Right)
                [] OTHER -> {})

NodesOfAll(es, i) ==
    IF i > Len(es) THEN {} ELSE NodesOf(es[i]) \cup NodesOfAll(es, i + 1)

\* the nodes strictly below the top-level node of the select item
NodesBelowTop ==
    CASE ast.Expr.kind = "FuncExpr" -> NodesOfAll(ast.Expr.Exprs, 1)
      [] ast.Expr.kind = "BinaryExpr" -> NodesOf(ast.Expr.Left) \cup NodesOf(ast.Expr.Right)
      [] OTHER -> {}

\* C6: a tuple is returned with an aggregate name only when the top-level
\* node of the item is that aggregate call with exactly one argument, and with
\* aggrField "*" only for count; an aggregate below the top-level node, an
\* aggregate with another number of arguments, or a non-count aggregate over
\* "*" gives an error and no tuple.
C6_AggregateOnlyAtTop ==
    Parsed =>
        /\ (ret.err = NoErr /\ tuple.aggrFuc # "") =>
              /\ IsAggregateCall(ast.Expr)
              /\ tuple.aggrFuc = ast.Expr.Name
              /\ Len(ast.Expr.Exprs) = 1
        /\ (ret.err = NoErr /\ tuple.aggrField = Text("*")) => tuple.aggrFuc = "count"
        /\ ( \/ \E n \in NodesBelowTop : IsAggregateCall(n)
             \/ \E n \in NodesOf(ast.Expr) : IsAggregateCall(n) /\ Len(n.Exprs) # 1
             \/ \E n \in NodesOf(ast.Expr) :
                   IsAggregateCall(n) /\ n.Name # "count" /\ n.Exprs = <<StarExpr("")>> )
           => (ret.err # NoErr /\ tuple = Nil)
        /\ (ret.err = NoErr) <=> (tuple # Nil)

\* count(*) at the top level is accepted with aggrField "*"
C6_Witness ==
    /\ Parsed
    /\ ret.err = NoErr
    /\ tuple.aggrFuc = "count"
    /\ tuple.aggrField = Text("*")

\* an aggregate under a binary operator is rejected
C6_NestedWitness ==
    /\ Parsed
    /\ ast.Expr.kind = "BinaryExpr"
    /\ IsAggregateCall(ast.Expr.Left)
    /\ Len(ast.Expr.Left.Exprs) = 1
    /\ ret.err # NoErr /\ tuple = Nil

-----------------------------------------------------------------------------
(* C7 *)

\* C7: the tuple of an aggregate item has distinct set when the aggregate
\* call carries DISTINCT, whatever its argument.
C7_DistinctOfAggregate ==
    (Parsed /\ ret.err = NoErr /\ tuple.aggrFuc # "")
        => (ast.Expr.Distinct => tuple.distinct)

-----------------------------------------------------------------------------
(* C8 *)

Checked == pc = "done" /\ call.fn = "checkInTuple"

\* C8: checkInTuple is true exactly when some tuple has the field (or "*")
\* and the table is empty, the tuple refers to no table, or it refers to
\* exactly that one table.
C8_ProjectionMembership ==
    Checked =>
        (ret.found <=>
            \E i \in DOMAIN ast.tuples :
                /\ ast.tuples[i].field \in {call.field, Text("*")}
                /\ \/ call.table = ""
                   \/ ast.tuples[i].referTables = <<>>
                   \/ ast.tuples[i].referTables = <<call.table>>)

\* a tuple with the field refers to two tables, the queried one among them,
\* and the lookup fails
C8_Witness ==
    /\ Checked
    /\ call.table # ""
    /\ \E i \in DOMAIN ast.tuples :
         /\ ast.tuples[i].field = call.field
         /\ Len(ast.tuples[i].referTables) = 2
         /\ \E k \in 1 .. 2 : ast.tuples[i].referTables[k] = call.table
    /\ ~ret.found

-----------------------------------------------------------------------------
(* C9 *)

Decomposing == call.fn = "decomposeAvg"

\* C9: decomposeAvg returns sum(aggrField) under the field name of the tuple
\* and then count(aggrField) without alias, and leaves the tuple as it was.
C9_SumThenCount ==
    Decomposing =>
        /\ Len(ret.exprs) = 2
        /\ \A i \in 1 .. 2 :
              /\ ret.exprs[i].kind = "AliasedExpr"
              /\ ret.exprs[i].Expr.kind = "FuncExpr"
              /\ Len(ret.exprs[i].Expr.Exprs) = 1
              /\ Format(ret.exprs[i].Expr.Exprs[1]) = call.tuple.aggrField
        /\ ret.exprs[1].Expr.Name = "sum"
        /\ ret.exprs[1].As = call.tuple.field
        /\ ret.exprs[2].Expr.Name = "count"
        /\ ret.exprs[2].As = <<>>
        /\ tuple = call.tuple

\* avg over a qualified column, named by its text
C9_Witness ==
    /\ Decomposing
    /\ Len(call.tuple.aggrField) > 1
    /\ Len(call.tuple.field) > 1
    /\ Len(ret.exprs) = 2

=============================================================================
